---- MODULE Spec2Model ----
(***************************************************************************)
(* Echo career agent: the vector store (agent/memory/vector_store.py), the *)
(* relational store (agent/memory/database.py) and the matching pipeline   *)
(* (agent/tools/job_matcher.py) with the triggers that start it            *)
(* (api/main.py).                                                          *)
(*                                                                         *)
(* Scores are integers in units of 0.0001 (0.55 is 5500).  A text is a     *)
(* sequence of one-character strings.  An embedding vector is named by the *)
(* job whose text it embeds; its similarity to the resume vector is the    *)
(* table SimScore.                                                         *)
(***************************************************************************)
EXTENDS Integers, Sequences, FiniteSets, TLC

(***************************************************************************)
(* Bounds of the model.                                                    *)
(***************************************************************************)
MaxEvents == 4
MaxTasks == 2
MaxVectors == 3
MaxBumps == 2
\* the insertions made on one store, enough to pass two multiples of SaveEvery
MaxInserts == 101
\* the flush() calls made on one store
MaxFlushes == 2
\* the upsert_job calls made in a row on one table
MaxUpserts == 2
\* the save_resume calls made in a row on one table
MaxResumes == 3
\* the number of components of a stored vector (embedding_dim, 768 as shipped)
dim == 3

(***************************************************************************)
(* Program constants.                                                      *)
(***************************************************************************)
threshold == 5500
rerank_min == 5000
rerank_max == 6500
CoarseMargin == 1000
RoleBonus == 1500
RolePenalty == 5000
top_k == 200
UnmatchedLimit == 200
SaveEvery == 50
MaxGaps == 6
MaxOverlap == 8

(***************************************************************************)
(* Texts.                                                                  *)
(***************************************************************************)
UpperMap ==
  [A |-> "a", B |-> "b", C |-> "c", D |-> "d", E |-> "e", F |-> "f", G |-> "g",
   H |-> "h", I |-> "i", J |-> "j", K |-> "k", L |-> "l", M |-> "m", N |-> "n",
   O |-> "o", P |-> "p", Q |-> "q", R |-> "r", S |-> "s", T |-> "t", U |-> "u",
   V |-> "v", W |-> "w", X |-> "x", Y |-> "y", Z |-> "z"]

\* str.lower()
lower(s) ==
  [i \in 1..Len(s) |-> IF s[i] \in DOMAIN UpperMap THEN UpperMap[s[i]] ELSE s[i]]

\* Python's  sub in s  on strings
Contains(sub, s) ==
  \E i \in 0..(Len(s) - Len(sub)) : SubSeq(s, i + 1, i + Len(sub)) = sub

\* the elements of a sequence
Range(s) == {s[i] : i \in 1..Len(s)}

(***************************************************************************)
(* The job postings the scraper delivers, by row id, and the resumes the   *)
(* candidate uploads, by version.                                          *)
(***************************************************************************)
NoJob == 0

\* a posting that requires eight skills; it occurs only as the argument of a
\* call of _build_match
ManySkillsJob == 100

JobTitle(j) ==
  CASE j % 3 = 1 -> <<"D","a","t","a"," ","A","n","a","l","y","s","t">>
    [] j % 3 = 2 -> <<"S","a","l","e","s"," ","E","x","e","c">>
    [] OTHER     -> <<"M","L"," ","E","n","g","i","n","e","e","r">>

JobSkills(j) ==
  CASE j = ManySkillsJob ->
         << <<"P","y","t","h","o","n">>, <<"S","Q","L">>, <<"E","x","c","e","l">>,
            <<"R">>, <<"S","p","a","r","k">>, <<"D","o","c","k","e","r">>,
            <<"A","W","S">>, <<"G","i","t">> >>
    [] j % 3 = 1 -> << <<"s","q","l">>, <<"R">> >>
    [] j % 3 = 2 -> << <<"E","x","c","e","l">> >>
    [] OTHER     -> << <<"P","y","t","h","o","n">>, <<"S","Q","L">> >>

ResumeTargetRoles(v) ==
  IF v % 2 = 1 THEN << <<"M","L"," ","E","n","g","i","n","e","e","r">> >>
               ELSE << <<"D","a","t","a">>, <<"S","a","l","e","s"," ","L","e","a","d">> >>

ResumeSkills(v) ==
  IF v % 2 = 1 THEN << <<"p","y","t","h","o","n">> >> ELSE << <<"S","q","l">> >>

ResumeTechStack(v) ==
  IF v % 2 = 1 THEN << >> ELSE << <<"E","x","c","e","l">> >>

\* inner product of the normalised vector of job j's text with the
\* normalised vector of resume version v
SimScore(j, v) ==
  IF v % 2 = 1
  THEN CASE j % 3 = 1 -> 4500
         [] j % 3 = 2 -> 7000
         [] OTHER     -> 6000
  ELSE CASE j % 3 = 1 -> 5200
         [] j % 3 = 2 -> 4499
         [] OTHER     -> 7200


(***************************************************************************)
(* State.                                                                  *)
(***************************************************************************)
VARIABLES
  jobs,         \* table jobs: rows [id, is_active], in ascending scraped_at order
  job_matches,  \* table job_matches: rows in ascending id order
  skill_gaps,   \* table skill_gaps: skill_name -> frequency
  resume,       \* version of the active row of resume_versions, 0 when none
  index_file,   \* jobs.index on disk: [exists, vecs], and gen, the _save that wrote it
  meta_file,    \* meta.pkl on disk: [exists, id_map, meta, next_idx], and gen
  resume_npy,   \* resume.npy on disk: resume version it embeds, 0 when absent
  up,           \* the process is running (its singletons are constructed)
  rerank,       \* setting llm_rerank_enabled, read when JobMatcher is built
  faiss_ties,   \* the installed FAISS: which of the positions with equal score its
                \* search returns first, "low" (the lowest) or "high" (the highest)
  index,        \* VectorStore.index: the vectors, by FAISS position (from 0)
  id_map,       \* VectorStore.id_map: position -> job_id
  meta,         \* VectorStore.meta: position -> job whose title and company it holds
  next_idx,     \* VectorStore.next_idx
  task,         \* the coroutines running JobMatcher.run()
  cpu,          \* the task the event loop is executing, 0 when none
  maxPos,       \* history: the highest position add_job_vector has returned, -1 when none
  runLog,       \* history: the run before the current one, and the stores as the current one found them
  agent_paused, \* preference agent_paused of the database
  events,       \* history: how many requests, scraper deliveries and stops there were
  call,         \* a single operation called on its own: its name and arguments
  ret           \* what that call returned: [done, val]

dbVars == <<jobs, job_matches, skill_gaps, resume>>
diskVars == <<index_file, meta_file, resume_npy>>
vsVars == <<index, id_map, meta, next_idx>>
histVars == <<maxPos, runLog, events>>
callVars == <<call, ret>>
buildVars == <<rerank, faiss_ties>>
vars == <<jobs, job_matches, skill_gaps, resume, index_file, meta_file,
          resume_npy, up, rerank, faiss_ties, agent_paused, index, id_map, meta, next_idx, task, cpu,
          maxPos, runLog, events, call, ret>>

Min(a, b) == IF a <= b THEN a ELSE b

(***************************************************************************)
(* Database.                                                               *)
(***************************************************************************)
\* SELECT id FROM jobs WHERE id = ?
get_job_by_id(job_id) ==
  IF \E i \in 1..Len(jobs) : jobs[i].id = job_id THEN job_id ELSE NoJob

Reverse(s) == [i \in 1..Len(s) |-> s[Len(s) + 1 - i]]

Filter(s, keep) == SelectSeq(s, LAMBDA x : x \in keep)

\* the batch without the test for a match record; C16_RefreshOnlyUnmatched
\* fails under it
get_unmatched_jobs_AllActive(limit) ==
  LET ids == [i \in 1..Len(jobs) |-> jobs[i].id]
      keep == {jobs[i].id : i \in {k \in 1..Len(jobs) : jobs[k].is_active}}
      rows == Filter(Reverse(ids), keep)
  IN  SubSeq(rows, 1, Min(limit, Len(rows)))

\* active jobs without a row in job_matches, newest scrape first, at most limit
get_unmatched_jobs(limit) ==
  LET ids == [i \in 1..Len(jobs) |-> jobs[i].id]
      keep == {jobs[i].id : i \in {k \in 1..Len(jobs) : jobs[k].is_active}}
                \ {job_matches[i].job_id : i \in 1..Len(job_matches)}
      rows == Filter(Reverse(ids), keep)
  IN  SubSeq(rows, 1, Min(limit, Len(rows)))

\* INSERT OR REPLACE INTO job_matches (job_id, ...): the table's only key is
\* the autoincrement id, which the statement does not give
save_match(rows, match) == Append(rows, match)

\* a bump that starts the count again; C18_BumpAndListing fails under it
bump_skill_StartAgain(freq, skill) ==
  [s \in DOMAIN freq \cup {skill} |-> IF s = skill THEN 1 ELSE freq[s]]

\* bump_skill: UPDATE frequency = frequency + 1 on a known skill_name, else
\* INSERT with the column default, frequency 1
bump_skill(freq, skill) ==
  IF skill \in DOMAIN freq
  THEN [freq EXCEPT ![skill] = @ + 1]
  ELSE [s \in DOMAIN freq \cup {skill} |-> IF s = skill THEN 1 ELSE freq[s]]

\* bump_skill for every gap of a list without repetitions
RECURSIVE bump_skills(_, _)
bump_skills(freq, gaps) ==
  IF gaps = {} THEN freq
  ELSE LET g == CHOOSE x \in gaps : TRUE
       IN  bump_skills(bump_skill(freq, g), gaps \ {g})

\* the row get_skill_gaps lists first among S: the highest frequency, any of
\* the rows that share it
TopSkill(freq, S) == CHOOSE s \in S : \A x \in S : freq[s] >= freq[x]

RECURSIVE ByFrequency(_, _)
ByFrequency(freq, S) ==
  IF S = {} THEN <<>>
  ELSE <<[skill_name |-> TopSkill(freq, S), frequency |-> freq[TopSkill(freq, S)]]>>
         \o ByFrequency(freq, S \ {TopSkill(freq, S)})

\* get_skill_gaps: ORDER BY frequency DESC LIMIT limit.  Its filter on
\* our_level IN ('none', 'basic') keeps every row: each caller of bump_skill
\* inserts with level 'none' and nothing updates the column.
get_skill_gaps(freq, limit) ==
  SubSeq(ByFrequency(freq, DOMAIN freq), 1, Min(limit, Cardinality(DOMAIN freq)))

\* upsert_job: a known external_id refreshes is_active and scraped_at, a new
\* one inserts a row with the next id
UpsertJob ==
  /\ up
  /\ events < MaxEvents
  /\ events' = events + 1
  /\ \/ \E i \in 1..Len(jobs) :
          /\ jobs' = Append(SubSeq(jobs, 1, i - 1) \o SubSeq(jobs, i + 1, Len(jobs)),
                         [id |-> jobs[i].id, is_active |-> TRUE])
          /\ UNCHANGED runLog
     \/ /\ jobs' = Append(jobs, [id |-> Len(jobs) + 1, is_active |-> TRUE])
        /\ runLog' = [runLog EXCEPT !.dirty = TRUE]
  /\ UNCHANGED <<job_matches, skill_gaps, resume, diskVars, up, buildVars, agent_paused,
                 vsVars, task, cpu, maxPos, callVars>>

\* cleanup: the jobs scraped before the cutoff, the first n rows in scrape
\* order, become inactive.  No module of the repository calls it; it is a
\* maintenance call on the database file, made from outside the server.
Cleanup ==
  /\ events < MaxEvents
  /\ events' = events + 1
  /\ \E n \in 1..Len(jobs) :
       /\ \E i \in 1..n : jobs[i].is_active
       /\ jobs' = [i \in 1..Len(jobs) |->
                    IF i <= n THEN [jobs[i] EXCEPT !.is_active = FALSE] ELSE jobs[i]]
  /\ runLog' = [runLog EXCEPT !.dirty = TRUE]
  /\ UNCHANGED <<job_matches, skill_gaps, resume, diskVars, up, buildVars, agent_paused,
                 vsVars, task, cpu, maxPos, callVars>>

(***************************************************************************)
(* VectorStore.                                                            *)
(***************************************************************************)
vsNow == [index |-> index, id_map |-> id_map, meta |-> meta, next_idx |-> next_idx]

EmptyStore == [index |-> <<>>, id_map |-> <<>>, meta |-> <<>>, next_idx |-> 0]

NoIndexFile == [exists |-> FALSE, vecs |-> <<>>, gen |-> 0]
NoMetaFile == [exists |-> FALSE, id_map |-> <<>>, meta |-> <<>>, next_idx |-> 0,
               gen |-> 0]

\* d[k] = v on a dict
Put(d, k, v) == [x \in DOMAIN d \cup {k} |-> IF x = k THEN v ELSE d[x]]

\* d.get(k), NoJob standing for None
Get(d, k) == IF k \in DOMAIN d THEN d[k] ELSE NoJob

\* _init: both files present loads them, anything else starts a new index
LoadStore(ifile, mfile) ==
  IF ifile.exists /\ mfile.exists
  THEN [index |-> ifile.vecs, id_map |-> mfile.id_map, meta |-> mfile.meta,
        next_idx |-> mfile.next_idx]
  ELSE EmptyStore

\* _save writes jobs.index first and meta.pkl second
NextGen == (IF index_file.gen >= meta_file.gen THEN index_file.gen ELSE meta_file.gen) + 1

IndexFileOf(st) == [exists |-> TRUE, vecs |-> st.index, gen |-> NextGen]
MetaFileOf(st) ==
  [exists |-> TRUE, id_map |-> st.id_map, meta |-> st.meta, next_idx |-> st.next_idx,
   gen |-> NextGen]

\* truncation that keeps the last dim components; C15_AnyLengthInserts fails
\* under it
PadOrTruncate_KeepTail(vec) ==
  IF Len(vec) < dim THEN vec \o [i \in 1..(dim - Len(vec)) |-> 0]
  ELSE SubSeq(vec, Len(vec) - dim + 1, Len(vec))

\* lines 67-74 of add_job_vector: np.pad(vec, (0, dim - len)) or vec[:dim]
PadOrTruncate(vec) ==
  IF Len(vec) = dim THEN vec
  ELSE IF Len(vec) < dim THEN vec \o [i \in 1..(dim - Len(vec)) |-> 0]
  ELSE SubSeq(vec, 1, dim)

\* add_job_vector: the vector goes to the end of the FAISS index, the maps
\* are written at next_idx
add_job_vector(st, job_id, vec) ==
  [index |-> Append(st.index, vec),
   id_map |-> Put(st.id_map, st.next_idx, job_id),
   meta |-> Put(st.meta, st.next_idx, job_id),
   next_idx |-> st.next_idx + 1]

\* a periodic persist that is due one insertion late
SaveDue_Late(st) == st.next_idx % SaveEvery = 1

\* the periodic persist of add_job_vector
SaveDue(st) == st.next_idx % SaveEvery = 0

\* score of the vector at FAISS position p (from 0) against resume.npy
ScoreAt(st, p) == SimScore(st.index[p + 1], resume_npy)

\* the position IndexFlatIP.search reports first among S: the highest score,
\* and among equal scores the position the installed FAISS puts first; the
\* stable sort of match_resume keeps that order
Best(st, S) ==
  CHOOSE p \in S : \A q \in S :
    \/ ScoreAt(st, p) > ScoreAt(st, q)
    \/ /\ ScoreAt(st, p) = ScoreAt(st, q)
       /\ IF faiss_ties = "low" THEN p <= q ELSE p >= q

RECURSIVE Ranked(_, _)
Ranked(st, S) ==
  IF S = {} THEN <<>> ELSE <<Best(st, S)>> \o Ranked(st, S \ {Best(st, S)})

\* the search without the test for a resume vector; C14_NoDataNoMatches fails
\* under it
match_resume_AnyResume(st, k) ==
  IF Len(st.index) = 0 THEN <<>>
  ELSE LET order == Ranked(st, 0..(Len(st.index) - 1))
           kk == Min(k, Len(st.index))
       IN  [i \in 1..kk |->
              [job_id |-> Get(st.id_map, order[i]), score |-> ScoreAt(st, order[i])]]

\* match_resume: [] without resume vector or vectors, else the k best
\* positions as (job_id, score), by descending score
match_resume(st, k) ==
  IF resume_npy = 0 THEN <<>>
  ELSE IF Len(st.index) = 0 THEN <<>>
  ELSE LET order == Ranked(st, 0..(Len(st.index) - 1))
           kk == Min(k, Len(st.index))
       IN  [i \in 1..kk |->
              [job_id |-> Get(st.id_map, order[i]), score |-> ScoreAt(st, order[i])]]


(***************************************************************************)
(* Scoring.                                                                *)
(***************************************************************************)
None == [k |-> "none", v |-> 0]
Num(x) == [k |-> "num", v |-> x]
NotANumber == [k |-> "str", v |-> 0]

\* Python's round() of n/d to an integer: to nearest, ties to even
RoundDiv(n, d) ==
  LET q == n \div d
      r == n % d
  IN  IF 2 * r < d THEN q
      ELSE IF 2 * r > d THEN q + 1
      ELSE IF q % 2 = 0 THEN q ELSE q + 1

\* _final_score; float(llm) raises on text that is no number
FinalScoreRaises(llm) == llm.k = "str"

\* the fusion cutting off the fifth decimal instead of rounding; C11_Fusion
\* fails under it
_final_score_CutOff(embed, llm) ==
  IF llm.k # "none" THEN (6 * embed + 4 * llm.v) \div 10 ELSE embed

_final_score(embed, llm) ==
  IF llm.k # "none" THEN RoundDiv(6 * embed + 4 * llm.v, 10) ELSE embed

unrelated ==
  << <<"t","r","a","i","n","e","r">>,
     <<"s","a","l","e","s">>,
     <<"h","r">>,
     <<"r","e","c","r","u","i","t","e","r">>,
     <<"m","a","r","k","e","t","i","n","g">>,
     <<"b","u","s","i","n","e","s","s"," ","d","e","v","e","l","o","p","m","e","n","t">>,
     <<"b","p","o">>,
     <<"c","u","s","t","o","m","e","r"," ","s","u","p","p","o","r","t">> >>

target_roles_of(v) ==
  IF v = 0 THEN <<>>
  ELSE [i \in 1..Len(ResumeTargetRoles(v)) |-> lower(ResumeTargetRoles(v)[i])]

\* the modifier with the penalty tested before the bonus; C19_RoleModifier
\* fails under it
_calculate_role_match_PenaltyFirst(title, v) ==
  LET title_lower == lower(title)
      targets == target_roles_of(v)
  IN  IF title = <<>> THEN 0
      ELSE IF \E b \in 1..Len(unrelated) :
                /\ Contains(unrelated[b], title_lower)
                /\ ~ \E i \in 1..Len(targets) : Contains(unrelated[b], targets[i])
      THEN 0 - RolePenalty
      ELSE IF \E i \in 1..Len(targets) : Contains(targets[i], title_lower)
      THEN RoleBonus
      ELSE 0

\* _calculate_role_match: the score modifier
_calculate_role_match(title, v) ==
  LET title_lower == lower(title)
      targets == target_roles_of(v)
  IN  IF title = <<>> THEN 0
      ELSE IF \E i \in 1..Len(targets) : Contains(targets[i], title_lower)
      THEN RoleBonus
      ELSE IF \E b \in 1..Len(unrelated) :
                /\ Contains(unrelated[b], title_lower)
                /\ ~ \E i \in 1..Len(targets) : Contains(unrelated[b], targets[i])
      THEN 0 - RolePenalty
      ELSE 0

\* the lower-cased skills and tech stack of the resume, and the lower-cased
\* skills a job requires
r_skills(v) ==
  IF v = 0 THEN {}
  ELSE {lower(x) : x \in Range(ResumeSkills(v)) \cup Range(ResumeTechStack(v))}

j_skills(j) == {lower(x) : x \in Range(JobSkills(j))}

\* list(a_set)[:n]: n elements of the set, which ones is up to the set's order
Take(S, n) == {T \in SUBSET S : Cardinality(T) = Min(n, Cardinality(S))}

\* _build_match, for the overlap and the gaps list(...)[:n] picked
_build_match(j, score, v, overlap, gaps) ==
  [job_id |-> j,
   embed_score |-> score,
   llm_score |-> None,
   final_score |-> score + _calculate_role_match(JobTitle(j), v),
   skill_overlap |-> overlap,
   skill_gaps |-> gaps,
   resume |-> v]

\* the band test without its upper end; C10_RerankOnlyInBand fails under it
ShouldRerank_NoUpperEnd(enabled, score) ==
  enabled /\ rerank_min <= score

\* line 71 of run(): the re-rank band
ShouldRerank(enabled, score) ==
  enabled /\ rerank_min <= score /\ score <= rerank_max

\* a variant of the coarse filter that also drops a score on the bound
BelowCoarse_AtBound(score) == score <= threshold - CoarseMargin

\* line 61 of run(): the coarse filter
BelowCoarse(score) == score < threshold - CoarseMargin

\* admission that leaves out the threshold itself; C12_AdmittedIffThreshold
\* fails under it
Admitted_Above(final) == final > threshold

\* line 78 of run(): admission
Admitted(final) == final >= threshold


(***************************************************************************)
(* History kept for the properties.                                        *)
(***************************************************************************)
\* runLog.cur: the task of the run started last.  runLog.done: a run has
\* returned, with lastMatched as its matched count.  For the run in progress
\* or returned last: hasPrev (a run returned before it started), prevMatched
\* (what that run returned), startTotal and startRows (index size and
\* job_matches when it started), before (a job was inserted, a resume
\* uploaded, an embedding failed, the process stopped or a run raised between
\* the start of the previous run and its own start), dirty (the same since
\* its own start).
NoRuns == [cur |-> 0, done |-> FALSE, lastMatched |-> 0, hasPrev |-> FALSE, prevMatched |-> 0,
           startTotal |-> 0, startRows |-> <<>>, before |-> FALSE, dirty |-> FALSE]

\* a run returned matched = m
Completed(m) == [runLog EXCEPT !.done = TRUE, !.lastMatched = m]

(***************************************************************************)
(* JobMatcher.run().  A task holds the event loop (cpu) from one await     *)
(* that suspends to the next; only the call of the re-ranker suspends      *)
(* (GroqClient.embed awaits nothing).                                      *)
(***************************************************************************)
NoMatch == [job_id |-> NoJob, embed_score |-> 0, llm_score |-> None,
            final_score |-> 0, skill_overlap |-> {}, skill_gaps |-> {},
            resume |-> 0]

NoDecision == [match |-> NoMatch, admitted |-> FALSE]

\* what the language model sent back for a re-rank: nothing (time-out or
\* error, chat returns ""), text that is no JSON object, a JSON object
\* without llm_score, one whose llm_score is text, one whose llm_score is
\* the number v
NoAnswer == [kind |-> "unasked", v |-> 0]

IdleTask == [pc |-> "idle", unmatched |-> <<>>, indexed |-> 0, results |-> <<>>,
             matched |-> 0, resume |-> 0, match |-> NoMatch, last |-> NoDecision,
             answer |-> NoAnswer]

TaskIds == 1..MaxTasks

\* lines 28-35: the batch of unmatched jobs
StartOf(t) ==
  LET unmatched == get_unmatched_jobs(UnmatchedLimit)
  IN  [IdleTask EXCEPT !.pc = IF unmatched = <<>> THEN "flush" ELSE "index",
                       !.unmatched = unmatched]

Begin(t, changed) ==
  /\ up /\ cpu = 0
  /\ task[t].pc \in {"idle", "done", "raised"}
  /\ events < MaxEvents
  /\ task' = [task EXCEPT ![t] = StartOf(t)]
  /\ cpu' = t
  /\ events' = events + 1
  /\ runLog' = [runLog EXCEPT
                  !.cur = t,
                  !.hasPrev = runLog.done,
                  !.prevMatched = runLog.lastMatched,
                  !.startTotal = Len(index),
                  !.startRows = job_matches,
                  !.before = changed \/ runLog.dirty
                               \/ \E u \in TaskIds : task[u].pc = "rerank",
                  !.dirty = \E u \in TaskIds : task[u].pc = "rerank"]

\* _run_scrape_background (POST /api/agent/run, chat action run_scrape), after
\* the scraper: matcher.run()
RunStart(t) ==
  /\ Begin(t, FALSE)
  /\ UNCHANGED <<dbVars, diskVars, up, buildVars, agent_paused, vsVars, maxPos, callVars>>

\* the skills _identify_gaps gets from the language model and bumps: none
\* (no answer), or one, spelled as the model spells it
MarketGaps == {{}, {<<"S","Q","L">>}}

\* upload_resume: ResumeAnalyzer.analyze bumps the market gaps, saves the new
\* resume version and, when the embedding is there, its vector; then
\* matcher.run()
UploadResume(t) ==
  /\ \E g \in MarketGaps : skill_gaps' = bump_skills(skill_gaps, g)
  /\ resume' = resume + 1
  /\ \E ok \in BOOLEAN : resume_npy' = IF ok THEN resume + 1 ELSE resume_npy
  /\ Begin(t, TRUE)
  /\ UNCHANGED <<jobs, job_matches, index_file, meta_file, up,
                 buildVars, agent_paused, vsVars, maxPos, callVars>>

\* lines 36-44: embed one job and insert its vector; an empty embedding
\* skips the job
IndexJob(t) ==
  /\ up /\ cpu = t
  /\ task[t].pc = "index"
  /\ \E ok \in BOOLEAN :
       LET job == Head(task[t].unmatched)
           rest == Tail(task[t].unmatched)
           st == IF ok THEN add_job_vector(vsNow, job, job) ELSE vsNow
       IN  /\ index' = st.index
           /\ id_map' = st.id_map
           /\ meta' = st.meta
           /\ next_idx' = st.next_idx
           /\ maxPos' = IF ok /\ next_idx > maxPos THEN next_idx ELSE maxPos
           /\ index_file' = IF ok /\ SaveDue(st) THEN IndexFileOf(st) ELSE index_file
           /\ meta_file' = IF ok /\ SaveDue(st) THEN MetaFileOf(st) ELSE meta_file
           /\ task' = [task EXCEPT
                         ![t].unmatched = rest,
                         ![t].indexed = IF ok THEN @ + 1 ELSE @,
                         ![t].pc = IF rest = <<>> THEN "flush" ELSE "index"]
           /\ runLog' = IF ok THEN runLog ELSE [runLog EXCEPT !.dirty = TRUE]
  /\ UNCHANGED <<dbVars, resume_npy, up, buildVars, agent_paused, cpu, events, callVars>>

\* a variant of lines 46-57 that searches without flush()
FlushSearch_NoFlush(t) ==
  /\ up /\ cpu = t
  /\ task[t].pc = "flush"
  /\ LET results == match_resume(vsNow, top_k)
     IN  IF results = <<>>
         THEN /\ task' = [task EXCEPT ![t].pc = "done", ![t].matched = 0]
              /\ cpu' = 0
              /\ runLog' = Completed(0)
         ELSE /\ task' = [task EXCEPT ![t].pc = "score", ![t].results = results,
                                      ![t].matched = 0, ![t].resume = resume]
              /\ UNCHANGED <<cpu, runLog>>
  /\ UNCHANGED <<dbVars, diskVars, up, buildVars, agent_paused, vsVars, maxPos, events,
                 callVars>>

\* lines 46-57: flush, search, and the early return on no results
FlushSearch(t) ==
  /\ up /\ cpu = t
  /\ task[t].pc = "flush"
  /\ index_file' = IndexFileOf(vsNow)
  /\ meta_file' = MetaFileOf(vsNow)
  /\ LET results == match_resume(vsNow, top_k)
     IN  IF results = <<>>
         THEN /\ task' = [task EXCEPT ![t].pc = "done", ![t].matched = 0]
              /\ cpu' = 0
              /\ runLog' = Completed(0)
         ELSE /\ task' = [task EXCEPT ![t].pc = "score", ![t].results = results,
                                      ![t].matched = 0, ![t].resume = resume]
              /\ UNCHANGED <<cpu, runLog>>
  /\ UNCHANGED <<dbVars, resume_npy, up, buildVars, agent_paused, vsVars, maxPos, events,
                 callVars>>

\* lines 76-83 for the candidate at the head of results, with its match m;
\* then the loop goes on, or run() returns
Finalize(t, m, answer) ==
  LET rest == Tail(task[t].results)
      final == _final_score(m.embed_score, m.llm_score)
      mm == [m EXCEPT !.final_score = final]
      adm == Admitted(final)
      rows == IF adm THEN save_match(job_matches, mm) ELSE job_matches
      nmatched == IF adm THEN task[t].matched + 1 ELSE task[t].matched
  IN  IF FinalScoreRaises(m.llm_score)
      THEN /\ task' = [task EXCEPT ![t].pc = "raised", ![t].match = NoMatch,
                                   ![t].answer = answer]
           /\ cpu' = 0
           /\ runLog' = [runLog EXCEPT !.dirty = TRUE]
           /\ UNCHANGED <<job_matches, skill_gaps>>
      ELSE /\ job_matches' = rows
           /\ skill_gaps' = IF adm THEN bump_skills(skill_gaps, mm.skill_gaps)
                                   ELSE skill_gaps
           /\ task' = [task EXCEPT
                         ![t].results = rest,
                         ![t].matched = nmatched,
                         ![t].match = NoMatch,
                         ![t].last = [match |-> mm, admitted |-> adm],
                         ![t].answer = answer,
                         ![t].pc = IF rest = <<>> THEN "done" ELSE "score"]
           /\ cpu' = IF rest = <<>> THEN 0 ELSE t
           /\ runLog' = IF rest = <<>> THEN Completed(nmatched) ELSE runLog

\* a candidate dropped by the coarse filter or for want of a job row
Skip(t) ==
  LET rest == Tail(task[t].results)
  IN  /\ task' = [task EXCEPT ![t].results = rest,
                              ![t].pc = IF rest = <<>> THEN "done" ELSE "score"]
      /\ cpu' = IF rest = <<>> THEN 0 ELSE t
      /\ runLog' = IF rest = <<>> THEN Completed(task[t].matched) ELSE runLog
      /\ UNCHANGED <<job_matches, skill_gaps>>

\* lines 59-83: one candidate, up to the call of the re-ranker if it is made
ScoreStep(t) ==
  /\ up /\ cpu = t
  /\ task[t].pc = "score"
  /\ LET r == Head(task[t].results)
         job == get_job_by_id(r.job_id)
     IN  IF BelowCoarse(r.score) \/ job = NoJob
         THEN Skip(t)
         ELSE \E overlap \in Take(r_skills(task[t].resume) \cap j_skills(job), MaxOverlap),
                 gaps \in Take(j_skills(job) \ r_skills(task[t].resume), MaxGaps) :
                LET m == _build_match(job, r.score, task[t].resume, overlap, gaps)
                IN  IF ShouldRerank(rerank, r.score)
                    THEN /\ task' = [task EXCEPT ![t].pc = "rerank", ![t].match = m]
                         /\ cpu' = 0
                         /\ UNCHANGED <<job_matches, skill_gaps, runLog>>
                    ELSE Finalize(t, m, NoAnswer)
  /\ UNCHANGED <<jobs, resume, diskVars, up, buildVars, agent_paused, vsVars, maxPos,
                 events, callVars>>

\* what _llm_rerank can return: {} (no answer, or text that is no JSON
\* object), a number, the embedding score when the key is missing, text.
\* 0.475 fuses with an embedding score of 0.60 to the threshold, 0.55.
LlmScores == {2000, 4750, 9000}

LlmAnswers ==
  {[kind |-> k, v |-> 0] : k \in {"failed", "not_json", "no_score", "text_score"}}
    \cup {[kind |-> "score", v |-> x] : x \in LlmScores}

\* _llm_rerank: the llm_score that match.update(llm_result) leaves in the
\* match.  {} (nothing to update) when json.loads raises; the embedding score
\* when the key is missing, result.get("llm_score", score); else the value
_llm_rerank(answer, score) ==
  CASE answer.kind \in {"failed", "not_json"} -> None
    [] answer.kind = "no_score" -> Num(score)
    [] answer.kind = "text_score" -> NotANumber
    [] OTHER -> Num(answer.v)

LlmResults(score) == {_llm_rerank(a, score) : a \in LlmAnswers}

\* lines 72-83: the re-ranker answers, match.update(llm_result)
RerankReturn(t) ==
  /\ up /\ cpu = 0
  /\ task[t].pc = "rerank"
  /\ \E a \in LlmAnswers :
       Finalize(t, [task[t].match EXCEPT
                      !.llm_score = _llm_rerank(a, task[t].match.embed_score)], a)
  /\ UNCHANGED <<jobs, resume, diskVars, up, buildVars, agent_paused, vsVars, maxPos,
                 events, callVars>>


(***************************************************************************)
(* The process.                                                            *)
(***************************************************************************)
Halt ==
  /\ up' = FALSE
  /\ index' = <<>> /\ id_map' = <<>> /\ meta' = <<>> /\ next_idx' = 0
  /\ task' = [t \in TaskIds |-> IdleTask]
  /\ cpu' = 0
  /\ events' = events + 1
  /\ runLog' = [runLog EXCEPT !.dirty = TRUE]

\* the process stops (kill, power loss, reload of the server) outside _save
Stop ==
  /\ up
  /\ events < MaxEvents
  /\ Halt
  /\ UNCHANGED <<dbVars, diskVars, buildVars, agent_paused, maxPos, callVars>>

\* the process stops inside _save, between write_index and the dump of
\* meta.pkl
StopInSave(t) ==
  /\ up /\ cpu = t
  /\ task[t].pc = "flush"
  /\ events < MaxEvents
  /\ index_file' = IndexFileOf(vsNow)
  /\ Halt
  /\ UNCHANGED <<dbVars, meta_file, resume_npy, buildVars, agent_paused, maxPos, callVars>>

\* the process starts: JobMatcher() builds its VectorStore, which runs _init
Start ==
  /\ ~up
  /\ up' = TRUE
  /\ LET st == LoadStore(index_file, meta_file)
     IN  /\ index' = st.index
         /\ id_map' = st.id_map
         /\ meta' = st.meta
         /\ next_idx' = st.next_idx
  /\ UNCHANGED <<dbVars, diskVars, buildVars, agent_paused, task, cpu, histVars, callVars>>

(***************************************************************************)
(* Specifications.                                                         *)
(***************************************************************************)
NoCall == [fn |-> "none"]
NoRet == [done |-> FALSE, val |-> 0]
Returned(v) == [done |-> TRUE, val |-> v]

Init ==
  /\ call = NoCall
  /\ ret = NoRet
  /\ jobs = <<>>
  /\ job_matches = <<>>
  /\ skill_gaps = <<>>
  /\ resume = 0
  /\ index_file = NoIndexFile
  /\ meta_file = NoMetaFile
  /\ resume_npy = 0
  /\ up = TRUE
  /\ rerank \in BOOLEAN
  /\ faiss_ties \in {"low", "high"}
  /\ index = <<>> /\ id_map = <<>> /\ meta = <<>> /\ next_idx = 0
  /\ task = [t \in TaskIds |-> IdleTask]
  /\ cpu = 0
  /\ agent_paused = FALSE
  /\ maxPos = 0 - 1
  /\ runLog = NoRuns
  /\ events = 0

\* one run at a time: every trigger waits for the run before it
Next ==
  \/ UpsertJob
  \/ Cleanup
  \/ RunStart(1)
  \/ UploadResume(1)
  \/ IndexJob(1)
  \/ FlushSearch(1)
  \/ ScoreStep(1)
  \/ RerankReturn(1)
  \/ Stop
  \/ StopInSave(1)
  \/ Start

Spec == Init /\ [][Next]_vars

\* triggers arrive whenever the event loop is free
NextTriggers ==
  \/ UpsertJob
  \/ \E t \in TaskIds :
       \/ RunStart(t)
       \/ UploadResume(t)
       \/ IndexJob(t)
       \/ FlushSearch(t)
       \/ ScoreStep(t)
       \/ RerankReturn(t)

SpecTriggers == Init /\ [][NextTriggers]_vars

\* POST /api/agent/pause: a handler of the event loop the runs are tasks of
pause_agent ==
  /\ up /\ cpu = 0
  /\ ~agent_paused
  /\ agent_paused' = TRUE
  /\ UNCHANGED <<dbVars, diskVars, up, buildVars, vsVars, task, cpu, histVars, callVars>>

\* POST /api/agent/resume
resume_agent ==
  /\ up /\ cpu = 0
  /\ agent_paused
  /\ agent_paused' = FALSE
  /\ UNCHANGED <<dbVars, diskVars, up, buildVars, vsVars, task, cpu, histVars, callVars>>

\* the server with its pause and resume requests; the pause requests looked
\* at are the ones that arrive while a run is in progress
NextPause ==
  \/ UpsertJob
  \/ RunStart(1)
  \/ UploadResume(1)
  \/ IndexJob(1)
  \/ FlushSearch(1)
  \/ ScoreStep(1)
  \/ RerankReturn(1)
  \/ (pause_agent /\ task[1].pc = "rerank")
  \/ resume_agent

SpecPause == Init /\ [][NextPause]_vars

\* a backlog: one job more than a batch of get_unmatched_jobs takes, all
\* scraped before the first run and none arriving later
Backlog == UnmatchedLimit + 1

InitBacklog ==
  /\ call = NoCall
  /\ ret = NoRet
  /\ jobs = [i \in 1..Backlog |-> [id |-> i, is_active |-> TRUE]]
  /\ job_matches = <<>>
  /\ skill_gaps = <<>>
  /\ resume = 0
  /\ index_file = NoIndexFile
  /\ meta_file = NoMetaFile
  /\ resume_npy = 0
  /\ up = TRUE
  /\ rerank = TRUE
  /\ faiss_ties = "low"
  /\ index = <<>> /\ id_map = <<>> /\ meta = <<>> /\ next_idx = 0
  /\ task = [t \in TaskIds |-> IdleTask]
  /\ cpu = 0
  /\ agent_paused = FALSE
  /\ maxPos = 0 - 1
  /\ runLog = NoRuns
  /\ events = 0

\* IndexJob with a working embedding provider: the embedding is never empty
IndexJobOk(t) == IndexJob(t) /\ task'[t].indexed = task[t].indexed + 1

\* repeated runs over the backlog
NextBacklog ==
  \/ RunStart(1)
  \/ IndexJobOk(1)
  \/ FlushSearch(1)

SpecBacklog == InitBacklog /\ [][NextBacklog]_vars

(***************************************************************************)
(* Operations called on their own, on arguments drawn from small sets.     *)
(***************************************************************************)
\* the stores before the first start, for a call that does not touch them
Untouched ==
  /\ jobs = <<>> /\ job_matches = <<>> /\ skill_gaps = <<>> /\ resume = 0
  /\ index_file = NoIndexFile /\ meta_file = NoMetaFile
  /\ up = TRUE /\ rerank = TRUE
  /\ index = <<>> /\ id_map = <<>> /\ meta = <<>> /\ next_idx = 0
  /\ task = [t \in TaskIds |-> IdleTask]
  /\ cpu = 0 /\ agent_paused = FALSE
  /\ maxPos = 0 - 1 /\ runLog = NoRuns /\ events = 0

pipeVars == <<dbVars, diskVars, up, buildVars, agent_paused, vsVars, task, cpu, histVars>>

\* scores on the 4-decimal grid: the ends, the neighbourhood of the
\* threshold and of the band, and values whose fusion has a fifth decimal
ScoreGrid == {0, 1, 2, 3, 4999, 5000, 5500, 6501, 8000, 9999, 10000}

FusionCalls ==
  {[fn |-> "_final_score", embed |-> e, llm |-> l] :
     e \in ScoreGrid, l \in {None} \cup {Num(x) : x \in ScoreGrid}}

\* self._final_score(score, match.get("llm_score"))
FusionCall ==
  /\ call.fn = "_final_score" /\ ~ret.done
  /\ ret' = Returned(_final_score(call.embed, call.llm))
  /\ UNCHANGED <<call, pipeVars>>

\* sequences over S of length at most n
RECURSIVE SeqsUpTo(_, _)
SeqsUpTo(S, n) ==
  IF n = 0 THEN {<<>>}
  ELSE SeqsUpTo(S, n - 1)
         \cup {Append(q, x) : q \in {r \in SeqsUpTo(S, n - 1) : Len(r) = n - 1},
                               x \in S}

\* the store after add_job_vector for each job of ids, in that order
RECURSIVE StoreOf(_)
StoreOf(ids) ==
  IF ids = <<>> THEN EmptyStore
  ELSE LET front == SubSeq(ids, 1, Len(ids) - 1)
       IN  add_job_vector(StoreOf(front), ids[Len(ids)], ids[Len(ids)])

\* jobs 1 and 4 have the same similarity to every resume
SearchJobs == {1, 2, 4}

SearchCalls ==
  {[fn |-> "match_resume", st |-> StoreOf(ids), k |-> k] :
     ids \in SeqsUpTo(SearchJobs, MaxVectors), k \in (1..MaxVectors) \cup {top_k}}

\* self.vs.match_resume(top_k=k) against the resume.npy on disk
SearchCall ==
  /\ call.fn = "match_resume" /\ ~ret.done
  /\ ret' = Returned(match_resume(call.st, call.k))
  /\ UNCHANGED <<call, pipeVars>>

\* embeddings of every length up to dim + 1
InsertCalls ==
  {[fn |-> "add_job_vector", st |-> StoreOf(ids), job_id |-> 2, vec |-> v] :
     ids \in {<<>>, <<1>>}, v \in SeqsUpTo({1, 2}, dim + 1)}

\* self.vs.add_job_vector(job_id, embedding): the vector handed to
\* _normalize and the index, the position returned, the store afterwards
InsertCall ==
  /\ call.fn = "add_job_vector" /\ ~ret.done
  /\ ret' = Returned([vec |-> PadOrTruncate(call.vec),
                      idx |-> call.st.next_idx,
                      st |-> add_job_vector(call.st, call.job_id, call.job_id)])
  /\ UNCHANGED <<call, pipeVars>>

BuildMatchCalls ==
  {[fn |-> "_build_match", job |-> j, score |-> e, resume |-> v] :
     j \in {1, 2, 3, ManySkillsJob}, e \in {4500, 7000}, v \in 0..2}

\* self._build_match(job, score, resume)
BuildMatchCall ==
  /\ call.fn = "_build_match" /\ ~ret.done
  /\ \E overlap \in Take(r_skills(call.resume) \cap j_skills(call.job), MaxOverlap),
        gaps \in Take(j_skills(call.job) \ r_skills(call.resume), MaxGaps) :
       ret' = Returned(_build_match(call.job, call.score, call.resume, overlap, gaps))
  /\ UNCHANGED <<call, pipeVars>>

\* the skill table, empty at first, and the limit its listing is asked for
TrackedSkills == {<<"s","q","l">>, <<"e","x","c","e","l">>, <<"r">>}

TrackerCalls ==
  {[fn |-> "bump_skill", freq |-> <<>>, skill |-> <<>>, limit |-> n] : n \in {2, 12, 15}}

\* self.db.bump_skill(skill), then get_skill_gaps(limit) on the new table
BumpCall ==
  /\ call.fn = "bump_skill"
  /\ \E s \in TrackedSkills :
       /\ s \in DOMAIN call.freq => call.freq[s] < MaxBumps
       /\ call' = [call EXCEPT !.freq = bump_skill(call.freq, s), !.skill = s]
       /\ ret' = Returned(get_skill_gaps(bump_skill(call.freq, s), call.limit))
  /\ UNCHANGED pipeVars

Titles ==
  { <<>>,
    <<"M","L"," ","E","n","g","i","n","e","e","r">>,
    <<"D","a","t","a"," ","A","n","a","l","y","s","t">>,
    <<"S","a","l","e","s"," ","E","x","e","c">>,
    <<"S","a","l","e","s"," ","L","e","a","d"," ","T","r","a","i","n","e","r">>,
    <<"H","R"," ","D","a","t","a"," ","L","e","a","d">>,
    <<"B","P","O"," ","M","L"," ","E","n","g","i","n","e","e","r">>,
    <<"Q","A"," ","T","e","s","t","e","r">> }

RoleCalls ==
  {[fn |-> "_calculate_role_match", title |-> ti, resume |-> v] :
     ti \in Titles, v \in 0..2}

\* self._calculate_role_match(job.get("title", ""), resume)
RoleCall ==
  /\ call.fn = "_calculate_role_match" /\ ~ret.done
  /\ ret' = Returned(_calculate_role_match(call.title, call.resume))
  /\ UNCHANGED <<call, pipeVars>>

(* Database.upsert_job and Database.save_resume on tables of their own.    *)

\* what a scraper delivers for the posting with this external_id; text is the
\* wording of its title, company, description and skills on that day
Posting(e, text) ==
  [external_id |-> e,
   title |-> IF text = 1 THEN "Data Analyst" ELSE "Senior Data Analyst",
   company |-> IF text = 1 THEN "Acme" ELSE "Acme Ltd",
   description |-> IF text = 1 THEN "SQL reports" ELSE "SQL and Python reports",
   skills_required |-> IF text = 1 THEN <<"SQL">> ELSE <<"SQL", "Python">>]

Postings == {Posting(e, text) : e \in {"naukri_1", "naukri_2"}, text \in {1, 2}}

\* the row INSERT INTO jobs writes
JobRow(id, job, active, at) ==
  [id |-> id, external_id |-> job.external_id, title |-> job.title,
   company |-> job.company, description |-> job.description,
   skills_required |-> job.skills_required, is_active |-> active, scraped_at |-> at]

Known(rows, job) == {i \in 1..Len(rows) : rows[i].external_id = job.external_id}

\* a variant of upsert_job that rewrites the text of a known row as well
upsert_job_Rewrite(rows, now, job) ==
  IF Known(rows, job) # {}
  THEN [rows |-> [i \in 1..Len(rows) |->
                    IF i \in Known(rows, job)
                    THEN JobRow(rows[i].id, job, TRUE, now) ELSE rows[i]],
        id |-> rows[CHOOSE i \in Known(rows, job) : TRUE].id]
  ELSE [rows |-> Append(rows, JobRow(Len(rows) + 1, job, TRUE, now)),
        id |-> Len(rows) + 1]

\* upsert_job at time now: the table afterwards and the id returned
upsert_job(rows, now, job) ==
  IF Known(rows, job) # {}
  THEN [rows |-> [i \in 1..Len(rows) |->
                    IF i \in Known(rows, job)
                    THEN [rows[i] EXCEPT !.is_active = TRUE, !.scraped_at = now]
                    ELSE rows[i]],
        id |-> rows[CHOOSE i \in Known(rows, job) : TRUE].id]
  ELSE [rows |-> Append(rows, JobRow(Len(rows) + 1, job, TRUE, now)),
        id |-> Len(rows) + 1]

\* the tables the calls start from: empty, or one row of an earlier scrape,
\* active or deactivated by cleanup
UpsertTables ==
  {<<>>} \cup {<<JobRow(1, p, a, 0)>> : p \in Postings, a \in BOOLEAN}

UpsertCalls ==
  {[fn |-> "upsert_job", rows |-> r, now |-> 1, left |-> MaxUpserts] : r \in UpsertTables}

UpsertCall ==
  /\ call.fn = "upsert_job"
  /\ call.left > 0
  /\ \E job \in Postings :
       LET r == upsert_job(call.rows, call.now, job)
       IN  /\ call' = [call EXCEPT !.rows = r.rows, !.now = @ + 1, !.left = @ - 1]
           /\ ret' = Returned([job |-> job, before |-> call.rows, at |-> call.now,
                               after |-> r.rows, id |-> r.id])
  /\ UNCHANGED pipeVars

\* the profiles ResumeAnalyzer.analyze extracts
Profiles ==
  {[filename |-> f, skills |-> s] : f \in {"cv.pdf", "cv2.pdf"},
                                    s \in {<<"SQL">>, <<"SQL", "Python">>}}

MaxVersion(rows) ==
  IF rows = <<>> THEN 0
  ELSE CHOOSE v \in {rows[i].version : i \in 1..Len(rows)} :
         \A i \in 1..Len(rows) : rows[i].version <= v

ResumeRow(id, v, data) ==
  [id |-> id, version |-> v, filename |-> data.filename, skills |-> data.skills,
   is_active |-> TRUE]

\* a variant of save_resume without the UPDATE that deactivates the versions
save_resume_KeepActive(rows, data) ==
  [rows |-> Append(rows, ResumeRow(Len(rows) + 1, MaxVersion(rows) + 1, data)),
   id |-> Len(rows) + 1]

\* save_resume: the table afterwards and the id returned
save_resume(rows, data) ==
  [rows |-> Append([i \in 1..Len(rows) |-> [rows[i] EXCEPT !.is_active = FALSE]],
                   ResumeRow(Len(rows) + 1, MaxVersion(rows) + 1, data)),
   id |-> Len(rows) + 1]

\* get_active_resume: the active row of the highest version, NoJob for None
get_active_resume(rows) ==
  LET act == {i \in 1..Len(rows) : rows[i].is_active}
  IN  IF act = {} THEN NoJob
      ELSE rows[CHOOSE i \in act : \A k \in act : rows[k].version <= rows[i].version]

ResumeCalls == {[fn |-> "save_resume", rows |-> <<>>]}

ResumeCall ==
  /\ call.fn = "save_resume"
  /\ Len(call.rows) < MaxResumes
  /\ \E data \in Profiles :
       LET r == save_resume(call.rows, data)
       IN  /\ call' = [call EXCEPT !.rows = r.rows]
           /\ ret' = Returned([data |-> data, before |-> call.rows,
                               after |-> r.rows, id |-> r.id])
  /\ UNCHANGED pipeVars

(* VectorStore.add_job_vector and flush on the store of a first start.     *)
StoreCalls == {[fn |-> "store", flushes |-> 0]}

\* add_job_vector with its periodic _save
StoreInsert ==
  /\ call.fn = "store"
  /\ next_idx < MaxInserts
  /\ LET st == add_job_vector(vsNow, 1, 1)
     IN  /\ index' = st.index
         /\ id_map' = st.id_map
         /\ meta' = st.meta
         /\ next_idx' = st.next_idx
         /\ index_file' = IF SaveDue(st) THEN IndexFileOf(st) ELSE index_file
         /\ meta_file' = IF SaveDue(st) THEN MetaFileOf(st) ELSE meta_file
  /\ UNCHANGED <<dbVars, resume_npy, up, buildVars, agent_paused, task, cpu, histVars,
                 callVars>>

\* flush(), and what _init of a new VectorStore would load right after it
StoreFlush ==
  /\ call.fn = "store"
  /\ call.flushes < MaxFlushes
  /\ index_file' = IndexFileOf(vsNow)
  /\ meta_file' = MetaFileOf(vsNow)
  /\ call' = [call EXCEPT !.flushes = @ + 1]
  /\ ret' = Returned([st |-> vsNow, loaded |-> LoadStore(index_file', meta_file')])
  /\ UNCHANGED <<dbVars, resume_npy, up, buildVars, agent_paused, vsVars, task, cpu,
                 histVars>>

InitCalls ==
  /\ ret = NoRet
  /\ \/ call \in FusionCalls /\ Untouched /\ resume_npy = 0 /\ faiss_ties = "low"
     \/ call \in BuildMatchCalls /\ Untouched /\ resume_npy = 0 /\ faiss_ties = "low"
     \/ call \in TrackerCalls /\ Untouched /\ resume_npy = 0 /\ faiss_ties = "low"
     \/ call \in RoleCalls /\ Untouched /\ resume_npy = 0 /\ faiss_ties = "low"
     \/ call \in InsertCalls /\ Untouched /\ resume_npy = 0 /\ faiss_ties = "low"
     \/ call \in StoreCalls /\ Untouched /\ resume_npy = 0 /\ faiss_ties = "low"
     \/ call \in UpsertCalls /\ Untouched /\ resume_npy = 0 /\ faiss_ties = "low"
     \/ call \in ResumeCalls /\ Untouched /\ resume_npy = 0 /\ faiss_ties = "low"
     \/ /\ call \in SearchCalls /\ Untouched
        /\ resume_npy \in 0..2 /\ faiss_ties \in {"low", "high"}

NextCalls ==
  \/ FusionCall
  \/ SearchCall
  \/ InsertCall
  \/ BuildMatchCall
  \/ BumpCall
  \/ RoleCall
  \/ UpsertCall
  \/ ResumeCall
  \/ StoreInsert
  \/ StoreFlush

SpecCalls == InitCalls /\ [][NextCalls]_vars


(***************************************************************************)
(* Properties.                                                             *)
(***************************************************************************)
InBand(score) == rerank_min <= score /\ score <= rerank_max

\* the matches run() has produced: the rows it saved and the candidate each
\* task scored last
Produced ==
  {job_matches[i] : i \in 1..Len(job_matches)}
    \cup {task[t].last.match : t \in {u \in TaskIds : task[u].last.match.job_id # NoJob}}

\* C1: the match store holds at most one match record per job_id.
C1_OneMatchPerJob ==
  \A i, j \in 1..Len(job_matches) :
    job_matches[i].job_id = job_matches[j].job_id => i = j

\* C2: a run that follows a returned run, with no job inserted, no resume
\* uploaded and no stop since that run started, returns indexed = 0 and the
\* same matched count, and leaves index size and match records as it found them.
C2_RerunIdempotent ==
  \A t \in TaskIds :
    ( /\ runLog.cur = t /\ task[t].pc = "done"
      /\ runLog.hasPrev /\ ~runLog.before /\ ~runLog.dirty
      /\ resume_npy # 0 )
    => /\ task[t].indexed = 0
       /\ task[t].matched = runLog.prevMatched
       /\ Len(index) = runLog.startTotal
       /\ job_matches = runLog.startRows

\* C3: the final_score compared with the threshold and stored is the fused
\* base plus the role modifier of the job title.
C3_RoleModifierOnce ==
  \A m \in Produced :
    m.final_score = _final_score(m.embed_score, m.llm_score)
                      + _calculate_role_match(JobTitle(m.job_id), m.resume)

\* C4: every position add_job_vector returns is greater than every position
\* returned before, across persists, stops and reloads.
C4_PositionsNeverReused ==
  [][(up /\ up' /\ Len(index') = Len(index) + 1) => next_idx > maxPos]_vars

\* C5: in a running store the index holds next_idx vectors, id_map and meta
\* have exactly the positions 0 .. next_idx-1, and the vector at position p
\* is the one inserted for id_map[p].
C5_Lockstep ==
  up => /\ Len(index) = next_idx
        /\ DOMAIN id_map = 0..(next_idx - 1)
        /\ DOMAIN meta = 0..(next_idx - 1)
        /\ \A p \in 0..(Len(index) - 1) : index[p + 1] = Get(id_map, p)

\* C6: whenever a load can happen, index file and sidecar are both absent or
\* both written by the same persist.
C6_PersistAtomic ==
  ~up => /\ index_file.exists = meta_file.exists
         /\ index_file.gen = meta_file.gen

\* exactly one artifact is present, or the two describe different numbers of
\* positions
Mismatched(ifile, mfile) ==
  \/ ifile.exists # mfile.exists
  \/ ifile.exists /\ mfile.exists /\ Len(ifile.vecs) # mfile.next_idx

\* C7: a store never starts while exactly one artifact is present or the two
\* describe different numbers of positions.
C7_MismatchIsFatal ==
  [][(~up /\ up') => ~Mismatched(index_file, meta_file)]_vars

\* C8: run() never raises.
C8_RunNeverRaises ==
  \A t \in TaskIds : task[t].pc # "raised"

\* run() has started in task t and neither returned nor raised
InProgress(t) == task[t].pc \in {"index", "flush", "score", "rerank"}

\* C9: at most one run is in progress at any time.
C9_OneRunAtATime ==
  \A t, u \in TaskIds : InProgress(t) /\ InProgress(u) => t = u

\* C10: the re-ranker is called only when re-ranking is enabled and the raw
\* embed_score is in [rerank_min, rerank_max]; every match produced for a
\* score outside the band has llm_score None.
C10_RerankOnlyInBand ==
  /\ \A t \in TaskIds :
       task[t].pc = "rerank" => rerank /\ InBand(task[t].match.embed_score)
  /\ \A m \in Produced : ~InBand(m.embed_score) => m.llm_score = None

\* a run has saved a match for a score above the band, without LLM score,
\* and one for a score in the band that the re-ranker scored
C10_Witness ==
  /\ \E i \in 1..Len(job_matches) :
       job_matches[i].embed_score > rerank_max /\ job_matches[i].llm_score = None
  /\ \E i \in 1..Len(job_matches) :
       InBand(job_matches[i].embed_score) /\ job_matches[i].llm_score.k = "num"

\* C11: the fusion of e and l on the 4-decimal grid is the grid value nearest
\* to 0.6*e + 0.4*l (to the even one of two equally near) when l is present
\* and e itself when l is absent; e = 0.8, l = 0.5 gives 0.68.
C11_Fusion ==
  (call.fn = "_final_score" /\ ret.done) =>
    LET e == call.embed
        exact10 == 6 * e + 4 * call.llm.v
        off == 10 * ret.val - exact10
        dist == IF off >= 0 THEN off ELSE 0 - off
    IN  /\ call.llm = None => ret.val = e
        /\ call.llm # None =>
              /\ 2 * dist <= 10
              /\ 2 * dist = 10 => ret.val % 2 = 0
        /\ (e = 8000 /\ call.llm = Num(5000)) => ret.val = 6800

\* the fusion of 0.8 and 0.5 has returned 0.68
C11_Witness ==
  /\ call.fn = "_final_score" /\ call.embed = 8000 /\ call.llm = Num(5000)
  /\ ret.done /\ ret.val = 6800

\* task t has finished with the candidate at the head of its results
Scored(t) ==
  /\ task[t].pc \in {"score", "rerank"}
  /\ task'[t].pc \in {"score", "done"}
  /\ Len(task'[t].results) + 1 = Len(task[t].results)

ReportsInOrder(st, res, ps) ==
  /\ Len(ps) = Len(res)
  /\ \A i \in 1..Len(ps) :
       /\ ps[i] \in 0..(Len(st.index) - 1)
       /\ res[i] = [job_id |-> Get(st.id_map, ps[i]), score |-> ScoreAt(st, ps[i])]
  /\ \A i, j \in 1..Len(ps) :
       i < j => \/ res[i].score > res[j].score
                \/ res[i].score = res[j].score /\ ps[i] < ps[j]

\* C13: search returns at most min(k, total) results, by non-increasing
\* score and with equal scores in insertion order, and a second call on the
\* same store and query returns the same list.
C13_SearchOrder ==
  (call.fn = "match_resume" /\ ret.done) =>
    /\ Len(ret.val) <= Min(call.k, Len(call.st.index))
    /\ \E ps \in SeqsUpTo(0..(Len(call.st.index) - 1), Len(ret.val)) :
         ReportsInOrder(call.st, ret.val, ps)
    /\ ret.val = match_resume(call.st, call.k)

\* C14: when the index is empty or no resume vector is saved, the search of
\* a run returns the empty list and the run returns matched = 0, without
\* raising, saving a match or bumping a skill.
C14_NoDataNoMatches ==
  [][ \A t \in TaskIds :
        ( /\ task[t].pc = "flush" /\ task'[t].pc # "flush" /\ up'
          /\ (Len(index) = 0 \/ resume_npy = 0) )
        => /\ match_resume(vsNow, top_k) = <<>>
           /\ task'[t].pc = "done"
           /\ task'[t].matched = 0
           /\ job_matches' = job_matches
           /\ skill_gaps' = skill_gaps ]_vars

\* a run over a filled index has returned while no resume vector is saved
C14_Witness ==
  \E t \in TaskIds :
    /\ task[t].pc = "done" /\ task[t].indexed > 0 /\ task[t].matched = 0
    /\ Len(index) > 0 /\ resume_npy = 0

\* C15: an insert of a vector of any length succeeds; the vector stored has
\* dim components, the first dim of the input or the input followed by
\* zeros, and the insertion gets the next position.
C15_AnyLengthInserts ==
  (call.fn = "add_job_vector" /\ ret.done) =>
    /\ Len(ret.val.vec) = dim
    /\ \A i \in 1..dim :
         ret.val.vec[i] = IF i <= Len(call.vec) THEN call.vec[i] ELSE 0
    /\ ret.val.idx = call.st.next_idx
    /\ ret.val.st.next_idx = call.st.next_idx + 1
    /\ Len(ret.val.st.index) = Len(call.st.index) + 1
    /\ Get(ret.val.st.id_map, ret.val.idx) = call.job_id

\* a vector of dim + 1 components has been inserted into a store that held
\* one vector
C15_Witness ==
  /\ call.fn = "add_job_vector" /\ ret.done
  /\ Len(call.vec) = dim + 1 /\ call.vec[1] # call.vec[dim + 1]
  /\ call.st.next_idx = 1 /\ ret.val.idx = 1

\* job j is a row of jobs with is_active set
IsActive(j) == \E i \in 1..Len(jobs) : jobs[i].id = j /\ jobs[i].is_active

\* job j has a row in job_matches
HasMatch(j) == \E i \in 1..Len(job_matches) : job_matches[i].job_id = j

\* C16: the batch a run fetches holds only active jobs without match record;
\* the index refresh inserts only jobs of that batch, none that has a match
\* record; a job whose embedding is unavailable is not inserted, leaves the
\* batch, and is in the batch the next fetch returns.
C16_RefreshOnlyUnmatched ==
  [][ /\ \A t \in TaskIds :
           /\ ( /\ task[t].pc \in {"idle", "done", "raised"}
                /\ task'[t].pc \in {"index", "flush"} )
              => \A i \in 1..Len(task'[t].unmatched) :
                   /\ IsActive(task'[t].unmatched[i])
                   /\ ~HasMatch(task'[t].unmatched[i])
                   /\ \A k \in 1..Len(task'[t].unmatched) :
                        task'[t].unmatched[k] = task'[t].unmatched[i] => k = i
           /\ ( /\ task[t].pc = "index" /\ up'
                /\ Len(task'[t].unmatched) + 1 = Len(task[t].unmatched) )
              => LET job == Head(task[t].unmatched)
                 IN  /\ ~HasMatch(job)
                     /\ task'[t].unmatched = Tail(task[t].unmatched)
                     /\ IF task'[t].indexed = task[t].indexed + 1
                        THEN /\ Len(index') = Len(index) + 1
                             /\ index'[Len(index')] = job
                        ELSE /\ index' = index
                             /\ task'[t].indexed = task[t].indexed
                             /\ IsActive(job) =>
                                  \E i \in 1..Len(get_unmatched_jobs(UnmatchedLimit)') :
                                    get_unmatched_jobs(UnmatchedLimit)'[i] = job
      /\ (up /\ up' /\ index' # index) => \E t \in TaskIds : task[t].pc = "index" ]_vars

\* a run has indexed a job and returned, while an inactive job stayed out of
\* the index
C16_Witness ==
  \E t \in TaskIds :
    /\ task[t].pc = "done" /\ task[t].indexed > 0
    /\ \E i \in 1..Len(jobs) :
         ~jobs[i].is_active /\ jobs[i].id \notin Range(index)

\* the first n skills of the list req, case-folded, that are not in have
RECURSIVE FirstMissing(_, _, _)
FirstMissing(req, have, n) ==
  IF req = <<>> \/ n = 0 THEN {}
  ELSE IF lower(Head(req)) \in have THEN FirstMissing(Tail(req), have, n)
  ELSE {lower(Head(req))}
         \cup FirstMissing(Tail(req), have \cup {lower(Head(req))}, n - 1)

\* C17: skill_overlap is the case-folded intersection of the candidate's
\* skills and tech stack with the job's required skills; skill_gaps is the
\* first 6, in the order of the job's skill list, of the case-folded required
\* skills the candidate lacks; the two are disjoint, and required
\* [Python, SQL] with candidate {python} gives overlap [python], gaps [sql].
C17_OverlapAndGaps ==
  (call.fn = "_build_match" /\ ret.done) =>
    /\ ret.val.skill_overlap = r_skills(call.resume) \cap j_skills(call.job)
    /\ ret.val.skill_gaps =
         FirstMissing(JobSkills(call.job), r_skills(call.resume), MaxGaps)
    /\ ret.val.skill_overlap \cap ret.val.skill_gaps = {}
    /\ (call.job = 3 /\ call.resume = 1) =>
         /\ ret.val.skill_overlap = {<<"p","y","t","h","o","n">>}
         /\ ret.val.skill_gaps = {<<"s","q","l">>}

\* the listing L is by non-increasing frequency, shows rows of the table
\* freq, each once, and leaves out no row above one it shows
ListedByFrequency(freq, L) ==
  /\ \A i \in 1..Len(L) :
       /\ L[i].skill_name \in DOMAIN freq
       /\ L[i].frequency = freq[L[i].skill_name]
  /\ \A i, j \in 1..Len(L) :
       /\ i < j => L[i].frequency >= L[j].frequency
       /\ L[i].skill_name = L[j].skill_name => i = j
  /\ \A s \in DOMAIN freq :
       (\A i \in 1..Len(L) : L[i].skill_name # s)
         => \A i \in 1..Len(L) : L[i].frequency >= freq[s]

\* C18: bump(skill) inserts the skill at frequency 1 when absent and else
\* adds exactly 1, leaving every other entry as it was, so no frequency ever
\* decreases; get_skill_gaps lists by non-increasing frequency, a skill
\* bumped twice above a skill bumped once.
C18_BumpAndListing ==
  [][ (call.fn = "bump_skill" /\ call' # call) =>
        LET f == call.freq
            g == call'.freq
            s == call'.skill
        IN  /\ DOMAIN g = DOMAIN f \cup {s}
            /\ g[s] = IF s \in DOMAIN f THEN f[s] + 1 ELSE 1
            /\ \A x \in DOMAIN f : x # s => g[x] = f[x]
            /\ \A x \in DOMAIN f : g[x] >= f[x]
            /\ ret'.done
            /\ Len(ret'.val) = Min(call.limit, Cardinality(DOMAIN g))
            /\ ListedByFrequency(g, ret'.val) ]_vars

\* sql was bumped twice and excel once, and the listing has sql first and
\* excel second
C18_Witness ==
  /\ call.fn = "bump_skill" /\ ret.done
  /\ DOMAIN call.freq = {<<"s","q","l">>, <<"e","x","c","e","l">>}
  /\ call.freq[<<"s","q","l">>] = 2 /\ call.freq[<<"e","x","c","e","l">>] = 1
  /\ ret.val[1] = [skill_name |-> <<"s","q","l">>, frequency |-> 2]
  /\ ret.val[2] = [skill_name |-> <<"e","x","c","e","l">>, frequency |-> 1]

\* C19: the role modifier is +0.15 if a target role is a substring of the
\* lower-cased title, whatever unrelated-role term the title contains; else
\* -0.5 if the title contains an unrelated-role term that occurs in no target
\* role; else 0.
C19_RoleModifier ==
  (call.fn = "_calculate_role_match" /\ ret.done) =>
    LET ti == lower(call.title)
        roles == {lower(x) : x \in (IF call.resume = 0 THEN {}
                                     ELSE Range(ResumeTargetRoles(call.resume)))}
        bads == {b \in Range(unrelated) : Contains(b, ti)}
    IN  /\ ret.val \in {RoleBonus, 0 - RolePenalty, 0}
        /\ ret.val = RoleBonus <=> \E x \in roles : Contains(x, ti)
        /\ ret.val = 0 - RolePenalty <=>
             /\ ~ \E x \in roles : Contains(x, ti)
             /\ \E b \in bads : \A x \in roles : ~Contains(b, x)

\* "Sales Lead Trainer" for the targets Data and Sales Lead got +0.15, though
\* the title contains trainer, which no target role contains
C19_Witness ==
  /\ call.fn = "_calculate_role_match" /\ ret.done
  /\ call.resume = 2
  /\ Contains(<<"t","r","a","i","n","e","r">>, lower(call.title))
  /\ ret.val = RoleBonus

\* C20: when the re-ranker fails, times out, or answers anything but a JSON
\* object with a numeric score, the candidate is scored as without re-rank:
\* llm_score None, final_score the embedding score, and the run goes on.
C20_BadAnswerIsNoRerank ==
  \A t \in TaskIds :
    task[t].answer.kind \in {"failed", "not_json", "no_score", "text_score"}
    => /\ task[t].pc # "raised"
       /\ task[t].last.match.llm_score = None
       /\ task[t].last.match.final_score = task[t].last.match.embed_score

\* a step of the loop over the candidates that takes the next candidate, of
\* a job other than the one the run has just decided on
TakesJob(t) ==
  /\ task'[t] # task[t]
  /\ task[t].pc = "score"
  /\ Head(task[t].results).job_id # task[t].last.match.job_id

\* C21: once the pause preference is set, the run in progress takes no
\* further job: the candidate whose re-rank is awaited may be finished, but
\* no candidate of another job is taken after it.
C21_PauseStopsRun ==
  [][agent_paused => \A t \in TaskIds : ~TakesJob(t)]_vars

\* the rows without their scrape timestamps
Timeless(rows) ==
  {[r EXCEPT !.scraped_at = 0] : r \in {rows[i] : i \in 1..Len(rows)}}

\* C22: upsert_job with an external_id already in the table adds no row; the
\* row of that external_id becomes active with the scrape time of the call
\* and is otherwise as before, every other row is as before, and its id is
\* returned.  Upserting the same record once more leaves the same rows.
C22_UpsertKnown ==
  (call.fn = "upsert_job" /\ ret.done) =>
    LET v == ret.val
    IN  /\ Known(v.before, v.job) # {} =>
             /\ Len(v.after) = Len(v.before)
             /\ \A i \in 1..Len(v.before) :
                  IF i \in Known(v.before, v.job)
                  THEN /\ v.after[i] = [v.before[i] EXCEPT !.is_active = TRUE,
                                                            !.scraped_at = v.at]
                       /\ v.id = v.before[i].id
                  ELSE v.after[i] = v.before[i]
        /\ Timeless(upsert_job(v.after, v.at + 1, v.job).rows) = Timeless(v.after)

\* a posting known under another wording, and deactivated, is upserted
C22_Witness ==
  /\ call.fn = "upsert_job" /\ ret.done
  /\ \E i \in Known(ret.val.before, ret.val.job) :
       /\ ~ret.val.before[i].is_active
       /\ ret.val.before[i].title # ret.val.job.title
       /\ ret.val.after[i].is_active

\* C23: after every save_resume exactly one version is active, it is the one
\* just saved and the one get_active_resume returns, the version numbers
\* increase strictly along the table, and the earlier rows are as before
\* except for their active flag.
C23_OneActiveResume ==
  (call.fn = "save_resume" /\ ret.done) =>
    LET v == ret.val
        n == Len(v.after)
    IN  /\ {i \in 1..n : v.after[i].is_active} = {n}
        /\ v.after[n].id = v.id
        /\ v.after[n].filename = v.data.filename /\ v.after[n].skills = v.data.skills
        /\ get_active_resume(v.after) = v.after[n]
        /\ \A i \in 1..(n - 1) : v.after[i].version < v.after[i + 1].version
        /\ n = Len(v.before) + 1
        /\ \A i \in 1..Len(v.before) :
             v.after[i] = [v.before[i] EXCEPT !.is_active = v.after[i].is_active]

\* a third version has been saved over two earlier ones
C23_Witness ==
  /\ call.fn = "save_resume" /\ ret.done
  /\ Len(ret.val.after) = 3
  /\ ret.val.before[2].is_active
  /\ ~ret.val.after[2].is_active

\* C24: the candidates a run is scoring were found with the vector of the
\* profile that is active: resume.npy embeds the active resume version
\* whenever a search has used it.
C24_VectorOfActiveProfile ==
  \A t \in TaskIds :
    task[t].pc \in {"score", "rerank"} => resume_npy = resume

\* the rows of job_matches saved since the current run began
SavedByRun == SubSeq(job_matches, Len(runLog.startRows) + 1, Len(job_matches))

\* C25: a run that has returned admitted each job at most once: matched is
\* the number of distinct jobs among the matches it saved.
C25_OncePerRun ==
  \A t \in TaskIds :
    (task[t].pc = "done" /\ runLog.cur = t) =>
      task[t].matched = Cardinality({SavedByRun[i].job_id : i \in 1..Len(SavedByRun)})

\* C26: a candidate with a raw score below threshold - 0.1 is dropped at
\* once: no match is built for it, it is not sent to the re-ranker and
\* nothing is saved.  A candidate at or above that bound whose job row
\* exists is scored: it goes to the re-ranker or a decision is taken on it.
C26_CoarseFilter ==
  [][\A t \in TaskIds :
       (up' /\ task[t].pc = "score" /\ task'[t] # task[t]) =>
         LET r == Head(task[t].results)
         IN  IF r.score < threshold - CoarseMargin
             THEN /\ task'[t].pc # "rerank"
                  /\ task'[t].match = task[t].match
                  /\ task'[t].last = task[t].last
                  /\ task'[t].matched = task[t].matched
                  /\ job_matches' = job_matches
             ELSE get_job_by_id(r.job_id) # NoJob =>
                    \/ /\ task'[t].pc = "rerank"
                       /\ task'[t].match.job_id = r.job_id
                    \/ /\ task'[t].last.match.job_id = r.job_id
                       /\ task'[t].last.match.embed_score = r.score]_vars

\* a decision was taken on a candidate whose score is the bound itself
C26_Witness ==
  \E t \in TaskIds :
    /\ task[t].last.match.job_id # NoJob
    /\ task[t].last.match.embed_score = threshold - CoarseMargin

\* the insertions a start of the process would not find in the files
Unpersisted == Len(index) - Len(LoadStore(index_file, meta_file).index)

\* C27: on a store, fewer than 50 insertions are unpersisted at any time;
\* when the insertion count is a multiple of 50 everything is persisted; and
\* a load right after flush() gives the store as it was at the flush.
C27_PersistEvery50 ==
  (call.fn = "store") =>
    /\ Unpersisted < SaveEvery
    /\ (next_idx > 0 /\ next_idx % SaveEvery = 0) =>
         LoadStore(index_file, meta_file) = vsNow
    /\ ret.done => ret.val.loaded = ret.val.st

\* a flush between two periodic persists, the second of them passed, and
\* insertions made since
C27_Witness ==
  /\ call.fn = "store" /\ ret.done
  /\ ret.val.st.next_idx % SaveEvery # 0
  /\ ret.val.st.next_idx < SaveEvery
  /\ next_idx > 2 * SaveEvery
  /\ Unpersisted > 0

\* C28: every job with a saved match has a vector in the persisted index:
\* both files exist and jobs.index on disk holds a vector of that job.
C28_MatchedIsPersisted ==
  \A i \in 1..Len(job_matches) :
    /\ index_file.exists /\ meta_file.exists
    /\ job_matches[i].job_id \in Range(index_file.vecs)

\* a match was saved by a run that inserted the job's vector itself, and the
\* process has stopped since
C28_Witness ==
  /\ ~up
  /\ job_matches # <<>>
  /\ index = <<>>
  /\ job_matches[1].job_id \in Range(index_file.vecs)

\* the active jobs without a match record
Waiting ==
  {jobs[i].id : i \in {k \in 1..Len(jobs) : jobs[k].is_active}}
    \ {job_matches[i].job_id : i \in 1..Len(job_matches)}

\* C29: no job is starved.  When a run returns having left jobs and
\* job_matches as it found them, so that the next run takes the same batch,
\* every active job without a match record has been inserted into the index.
C29_NoStarvation ==
  \A t \in TaskIds :
    (task[t].pc = "done" /\ runLog.cur = t /\ ~runLog.dirty
       /\ job_matches = runLog.startRows)
      => \A j \in Waiting : j \in Range(index)

\* C30: no match is saved for a job that was inactive when the run began:
\* whenever a run during which no job was deactivated adds a row to
\* job_matches, the job it names is active.
C30_NoMatchForInactive ==
  [][(Len(job_matches') > Len(job_matches) /\ ~runLog.dirty) =>
       IsActive(job_matches'[Len(job_matches')].job_id)]_vars

====
